---- MODULE Spec2Model ----
(***************************************************************************)
(* Model of the LLM-driven scraping agent: the action schema (toolbox.py), *)
(* the action executor (executor.py) and the decision loop (agent.py).     *)
(*                                                                         *)
(* Conventions.  A raw payload (model output) is a record whose domain is  *)
(* the set of keys present; each value is [t |-> type, v |-> text].  A     *)
(* validated Action instance is a record of plain strings, as model_dump   *)
(* yields it.  Result strings are records [kind |-> ..., ...] holding the  *)
(* parts the f-strings of the source interpolate.                          *)
(***************************************************************************)
EXTENDS Integers, Sequences, FiniteSets, TLC

\* ------------------------------------------------------------------ bounds
\* Largest step budget (max_steps) explored.
MaxBudget == 3
\* Largest number of non-tag keys a raw payload carries.
MaxKeys == 3
\* Largest number of companies an extraction response carries.
MaxCompanies == 1

\* ------------------------------------------------------- toolbox.py schema
Fields ==
    {"url", "css_selector", "text", "value", "event_target", "event_argument",
     "description", "reason"}

Navigate == [tag |-> "navigate", required |-> {"url"}]
Click == [tag |-> "click", required |-> {"css_selector", "description"}]
FillField == [tag |-> "fill_field", required |-> {"css_selector", "text", "description"}]
SelectDropdown ==
    [tag |-> "select_dropdown", required |-> {"css_selector", "value", "description"}]
PerformPostback ==
    [tag |-> "perform_postback",
     required |-> {"event_target", "event_argument", "description"}]
ExtractData == [tag |-> "extract_data", required |-> {"description"}]
Finish == [tag |-> "finish", required |-> {"reason"}]

\* Action = Union[Navigate, ..., Finish]
Action ==
    {Navigate, Click, FillField, SelectDropdown, PerformPostback, ExtractData, Finish}

Str(s) == [t |-> "str", v |-> s]
NonStr(s) == [t |-> "int", v |-> s]

\* A variant, ignoring the action_name annotation: every required field
\* (Field(...)) is present and is a str.
RequiredOk(p, V) == \A f \in V.required : f \in DOMAIN p /\ p[f].t = "str"

\* The variant accepts any tag (the Literal check dropped).
TagOkAnyTag(p, V) == TRUE

\* action_name: Literal[tag] = tag.  A present key must equal the literal;
\* an absent key takes the default.
TagOk(p, V) == "action_name" \in DOMAIN p => p["action_name"] = Str(V.tag)

\* pydantic validation of a dict against one BaseModel (extra keys ignored).
Accepts(p, V) == TagOk(p, V) /\ RequiredOk(p, V)

\* The instance built from an accepted payload: the tag and the declared fields.
Instance(p, V) ==
    [f \in {"action_name"} \cup V.required |->
        IF f = "action_name"
        THEN (IF "action_name" \in DOMAIN p THEN p["action_name"].v ELSE V.tag)
        ELSE p[f].v]

\* Validation against the Union: the instances of the members that accept the
\* payload.  With a tag present at most one member accepts; without one the
\* member chosen among several depends on pydantic's union mode, so the
\* caller picks any.  The empty set is a ValidationError.
Validate(p) == {Instance(p, V) : V \in {W \in Action : Accepts(p, W)}}

\* model_dump(exclude={"action_name"}): the dump without its tag.
ModelDumpNoTag(a) == [f \in DOMAIN a \ {"action_name"} |-> Str(a[f])]

\* model_dump(): the instance's fields as a dict, read back as a raw payload.
ModelDump(a) == [f \in DOMAIN a |-> Str(a[f])]

\* ------------------------------------------------------------- executor.py
\* The except clause without TimeoutException.
NotFoundOnlyNoSuchElement == {"NoSuchElementException"}

\* except (NoSuchElementException, TimeoutException), line 75.
NotFoundExceptions == {"NoSuchElementException", "TimeoutException"}

NoFault == [call |-> "none", exc |-> "none"]

\* The driver calls of the private methods, in order.
_navigate == <<"get">>
_click == <<"find_element", "click">>
_fill_field == <<"find_element", "clear", "send_keys">>
_select_dropdown == <<"find_element", "select_by_value">>
_perform_postback == <<"execute_script">>

\* Calls that change the page (find_element only reads it).
MutatingCalls == {"get", "click", "clear", "send_keys", "select_by_value", "execute_script"}

\* What each driver call can raise.
Raises(call) ==
    CASE call = "get" -> {"TimeoutException", "WebDriverException"}
      [] call = "find_element" ->
            {"NoSuchElementException", "TimeoutException", "WebDriverException"}
      [] call = "click" -> {"WebDriverException"}
      [] call = "clear" -> {"WebDriverException"}
      [] call = "send_keys" -> {"WebDriverException"}
      [] call = "select_by_value" -> {"NoSuchElementException"}
      [] call = "execute_script" -> {"TimeoutException", "WebDriverException"}
      [] call = "page_source" -> {"WebDriverException"}
      [] OTHER -> {}

FaultsOf(calls) ==
    {NoFault} \cup
    {[call |-> calls[i], exc |-> e] : <<i, e>> \in
        {<<j, x>> \in (DOMAIN calls) \X {"NoSuchElementException", "TimeoutException",
                                          "WebDriverException"} : x \in Raises(calls[j])}}

\* The calls a method makes when `fault` strikes: up to and including the
\* failing one, each with whether it returned.
Performed(calls, fault) ==
    LET hit == {i \in DOMAIN calls : calls[i] = fault.call}
        n == IF hit = {} THEN Len(calls) ELSE CHOOSE i \in hit : \A j \in hit : i <= j
    IN  [i \in 1..n |-> [call |-> calls[i], ok |-> ~(i \in hit)]]

\* The isinstance chain of execute (lines 53-69).
Dispatch(action) ==
    CASE action["action_name"] = "navigate" -> [kind |-> "calls", calls |-> _navigate]
      [] action["action_name"] = "click" -> [kind |-> "calls", calls |-> _click]
      [] action["action_name"] = "fill_field" -> [kind |-> "calls", calls |-> _fill_field]
      [] action["action_name"] = "select_dropdown" ->
            [kind |-> "calls", calls |-> _select_dropdown]
      [] action["action_name"] = "perform_postback" ->
            [kind |-> "calls", calls |-> _perform_postback]
      [] action["action_name"] \in {"extract_data", "finish"} ->
            [kind |-> "acknowledged", calls |-> <<>>]
      [] OTHER -> [kind |-> "unknown", calls |-> <<>>]

\* getattr(action, 'css_selector', 'N/A')
SelectorOf(action) ==
    IF "css_selector" \in DOMAIN action THEN action["css_selector"] ELSE "N/A"

\* ActionExecutor.execute.  `raised` is an exception leaving execute.
\* Line 50 reads action.description before the try block.
execute(action, fault) ==
    LET action_type == action["action_name"]
        d == Dispatch(action)
        done == Performed(d.calls, fault)
        failed == Len(done) > 0 /\ ~done[Len(done)].ok
    IN  IF ~("description" \in DOMAIN action)
        THEN [raised |-> TRUE, exc |-> "AttributeError", calls |-> <<>>]
        ELSE IF d.kind = "acknowledged"
        THEN [raised |-> FALSE, calls |-> <<>>,
              result |-> [kind |-> "acknowledged", action_type |-> action_type]]
        ELSE IF d.kind = "unknown"
        THEN [raised |-> FALSE, calls |-> <<>>,
              result |-> [kind |-> "unexpected_error", action_type |-> action_type,
                          error |-> "ValueError"]]
        ELSE IF ~failed
        THEN [raised |-> FALSE, calls |-> done, result |-> [kind |-> "Success"]]
        ELSE IF fault.exc \in NotFoundExceptions
        THEN [raised |-> FALSE, calls |-> done,
              result |-> [kind |-> "element_not_found", action_type |-> action_type,
                          selector |-> SelectorOf(action), details |-> fault.exc]]
        ELSE [raised |-> FALSE, calls |-> done,
              result |-> [kind |-> "unexpected_error", action_type |-> action_type,
                          error |-> fault.exc]]

\* ----------------------------------------------------------------- agent.py
VARIABLES
    max_steps,        \* self.max_steps
    step,             \* iterations of the for loop completed so far
    pc,               \* position in Agent.run
    outcome,          \* how the run ended
    history,          \* self.history
    action,           \* the decided Action of the current step
    result,           \* the result of the current step
    simplified_html,  \* the reduced markup of the current step
    decision_prompt,  \* the decision request of the current step
    page,             \* the browser's page, as a version number
    decided,          \* log: the decision of every step, in order
    execLog,          \* log: the calls of ActionExecutor.execute
    extractLog,       \* log: the extraction requests
    driverLog,        \* log: the driver calls made through the executor and run
    tbPayload,        \* Toolbox validation on its own: the raw payload
    tbResult,         \* Toolbox validation on its own: the outcome
    tbDump,           \* Toolbox validation on its own: model_dump() of the instance
    tbBack,           \* Toolbox validation on its own: the dump validated again
    mainPc,           \* position in main()
    mainTry,          \* how main's try block (lines 58-67) was left
    acquired,         \* number of WebDrivers created
    released,         \* number of driver.quit() calls
    quitAt            \* number of driver calls made when driver.quit() was called

agentVars ==
    <<max_steps, step, pc, outcome, history, action, result, simplified_html,
      decision_prompt, page, decided, execLog, extractLog, driverLog>>
tbVars == <<tbPayload, tbResult, tbDump, tbBack>>
mainVars == <<mainPc, mainTry, acquired, released, quitAt>>
vars == <<agentVars, tbVars, mainVars>>

None == [kind |-> "none"]
Running == [kind |-> "running"]

\* The payloads the decision model answers with in the runs explored: one
\* well-formed payload of every variant, one with an unknown tag, one with a
\* required field missing, one with no tag.
ModelOutputs ==
    {[action_name |-> Str("navigate"), url |-> Str("https://x/list")],
     [action_name |-> Str("click"), css_selector |-> Str("#next"),
      description |-> Str("next page")],
     [action_name |-> Str("fill_field"), css_selector |-> Str("#q"), text |-> Str("ltd"),
      description |-> Str("search box")],
     [action_name |-> Str("select_dropdown"), css_selector |-> Str("#state"),
      value |-> Str("GJ"), description |-> Str("state")],
     [action_name |-> Str("perform_postback"), event_target |-> Str("grid"),
      event_argument |-> Str("Page$2"), description |-> Str("page 2")],
     [action_name |-> Str("extract_data"), description |-> Str("listing")],
     [action_name |-> Str("finish"), reason |-> Str("done")],
     [action_name |-> Str("scroll"), description |-> Str("scroll down")],
     [action_name |-> Str("click"), description |-> Str("next page")],
     [url |-> Str("https://x/list")]}

\* str(e) of a failed decision request.
DecisionErrors == {"TransportError"}
ValidationError == "ValidationError"

\* self.driver.page_source: the markup of the page, as its tags.
PageSource(v) ==
    [tags |-> <<"header", "script", "table", "nav", "div", "footer">>, version |-> v]

\* _clean_html: script, style, svg, nav, footer and header removed, the rest
\* cut to the first HtmlLimit characters (here: tags).
StrippedTags == {"script", "style", "svg", "nav", "footer", "header"}
HtmlLimit == 8000
_clean_html(page_source) ==
    LET kept == SelectSeq(page_source.tags, LAMBDA t : t \notin StrippedTags)
    IN  [tags |-> SubSeq(kept, 1, IF Len(kept) < HtmlLimit THEN Len(kept) ELSE HtmlLimit),
         version |-> page_source.version]

\* The decision prompt built from the history without its latest entry.
_construct_decision_prompt_stale(h, html) ==
    [goal |-> "goal", history |-> SubSeq(h, 1, Len(h) - 1), html |-> html]

\* _construct_decision_prompt: the goal, json.dumps(self.history), the markup.
_construct_decision_prompt(h, html) == [goal |-> "goal", history |-> h, html |-> html]

\* The extraction prompt built from the unreduced page source.
_construct_extraction_prompt_raw(html) == [html |-> PageSource(html.version)]

\* _construct_extraction_prompt: the markup.
_construct_extraction_prompt(html) == [html |-> html]

\* The branch of the ACT phase (lines 147, 151, 170), with the Finish test
\* dropped.
ActBranchNoFinish(a) ==
    IF a["action_name"] = "extract_data" THEN "extract" ELSE "execute"

\* The same with the ExtractData test dropped.
ActBranchNoExtract(a) ==
    IF a["action_name"] = "finish" THEN "finish" ELSE "execute"

\* The branch of the ACT phase (lines 147, 151, 170).
ActBranch(a) ==
    IF a["action_name"] = "finish" THEN "finish"
    ELSE IF a["action_name"] = "extract_data" THEN "extract"
    ELSE "execute"

\* An entry put in front instead of at the end.
AppendEntryFront(h, a, r) == <<[action |-> a, result |-> r]>> \o h

\* self.history.append({"action": action.model_dump(), "result": result})
AppendEntry(h, a, r) == Append(h, [action |-> a, result |-> r])

\* The except clause recording nothing.
OnDecisionErrorSilent(h, e) == h

\* self.history.append({"action": "LLM_Error", "result": str(e)})
OnDecisionError(h, e) ==
    Append(h, [action |-> [str |-> "LLM_Error"], result |-> [kind |-> "llm_error", text |-> e]])

\* The loop running one iteration too many: range(self.max_steps + 1).
LoopHeadOffByOne(s) ==
    IF s <= max_steps
    THEN pc' = "observe" /\ outcome' = outcome
    ELSE pc' = "done" /\ outcome' = [kind |-> "exhausted"]

\* for step in range(self.max_steps): ... else: "Reached max steps".
LoopHead(s) ==
    IF s < max_steps
    THEN pc' = "observe" /\ outcome' = outcome
    ELSE pc' = "done" /\ outcome' = [kind |-> "exhausted"]

\* The driver calls of one executor call or of run itself, logged with the
\* step (1-based; 0 is before the loop) they belong to.
Logged(calls, s) == [i \in DOMAIN calls |-> [step |-> s, call |-> calls[i].call, ok |-> calls[i].ok]]
Mutations(calls) ==
    Cardinality({i \in DOMAIN calls : calls[i].ok /\ calls[i].call \in MutatingCalls})

AgentInit ==
    /\ max_steps \in 0..MaxBudget
    /\ step = 0
    /\ pc = "start"
    /\ outcome = Running
    /\ history = <<>>
    /\ action = None
    /\ result = None
    /\ simplified_html = None
    /\ decision_prompt = None
    /\ page = 0
    /\ decided = <<>>
    /\ execLog = <<>>
    /\ extractLog = <<>>
    /\ driverLog = <<>>

TbIdle == tbPayload = None /\ tbResult = None /\ tbDump = None /\ tbBack = None

\* main() not in use: Agent.run is awaited by its caller on a driver it was given.
MainIdle ==
    /\ mainPc = "none"
    /\ mainTry = "none"
    /\ acquired = 0
    /\ released = 0
    /\ quitAt = 0

\* Before Agent(...) is constructed.
AgentUnset ==
    /\ max_steps = 0
    /\ step = 0
    /\ pc = "idle"
    /\ outcome = Running
    /\ history = <<>>
    /\ action = None
    /\ result = None
    /\ simplified_html = None
    /\ decision_prompt = None
    /\ page = 0
    /\ decided = <<>>
    /\ execLog = <<>>
    /\ extractLog = <<>>
    /\ driverLog = <<>>

\* Entry of main(), main.py line 28.
MainInit ==
    /\ AgentUnset
    /\ mainPc = "setup"
    /\ mainTry = "none"
    /\ acquired = 0
    /\ released = 0
    /\ quitAt = 0

\* A run starts either as Agent.run awaited on a constructed Agent, or as main().
Init == ((AgentInit /\ MainIdle) \/ MainInit) /\ TbIdle

\* run, line 109: self.driver.get(self.target_url).
Start ==
    /\ pc = "start"
    /\ \E fault \in FaultsOf(_navigate) :
         LET done == Performed(_navigate, fault)
         IN  /\ driverLog' = driverLog \o Logged(done, 0)
             /\ page' = page + Mutations(done)
             /\ IF fault = NoFault
                THEN LoopHead(0)
                ELSE pc' = "done" /\
                     outcome' = [kind |-> "raised", exc |-> fault.exc, at |-> "start"]
    /\ UNCHANGED <<max_steps, step, history, action, result, simplified_html,
                   decision_prompt, decided, execLog, extractLog, tbVars, mainVars>>

\* OBSERVE, lines 118-129: read the page, reduce it, build the decision prompt.
Observe ==
    /\ pc = "observe"
    /\ LET html == _clean_html(PageSource(page))
       IN  /\ simplified_html' = html
           /\ decision_prompt' = _construct_decision_prompt(history, html)
    /\ pc' = "decide"
    /\ action' = None
    /\ result' = None
    /\ UNCHANGED <<max_steps, step, outcome, history, page, decided, execLog,
                   extractLog, driverLog, tbVars, mainVars>>

\* OBSERVE when the driver fails: lines 118-119 are outside every try.
ObserveFails ==
    /\ pc = "observe"
    /\ \E e \in Raises("page_source") :
         outcome' = [kind |-> "raised", exc |-> e, at |-> "observe"]
    /\ pc' = "done"
    /\ UNCHANGED <<max_steps, step, history, action, result, simplified_html,
                   decision_prompt, page, decided, execLog, extractLog, driverLog,
                   tbVars, mainVars>>

\* DECIDE, lines 131-139: the response validates as an Action.
Decide ==
    /\ pc = "decide"
    /\ \E p \in ModelOutputs : \E a \in Validate(p) :
         /\ action' = a
         /\ decided' = Append(decided, a)
    /\ pc' = "act"
    /\ UNCHANGED <<max_steps, step, outcome, history, result, simplified_html,
                   decision_prompt, page, execLog, extractLog, driverLog, tbVars, mainVars>>

\* DECIDE, lines 141-144: the request or the validation fails; continue.
DecideFails ==
    /\ pc = "decide"
    /\ \E e \in DecisionErrors \cup
                {ValidationError : p \in {q \in ModelOutputs : Validate(q) = {}}} :
         /\ history' = OnDecisionError(history, e)
         /\ decided' = Append(decided, [llm_error |-> e])
    /\ step' = step + 1
    /\ LoopHead(step + 1)
    /\ UNCHANGED <<max_steps, action, result, simplified_html, decision_prompt, page,
                   execLog, extractLog, driverLog, tbVars, mainVars>>

\* ACT, lines 147-149: Finish breaks out of the loop.
ActFinish ==
    /\ pc = "act"
    /\ ActBranch(action) = "finish"
    /\ pc' = "done"
    /\ outcome' = [kind |-> "finished", reason |-> action["reason"]]
    /\ UNCHANGED <<max_steps, step, history, action, result, simplified_html,
                   decision_prompt, page, decided, execLog, extractLog, driverLog,
                   tbVars, mainVars>>

\* ACT, lines 151-169: the extraction request on the markup already observed.
ActExtract ==
    /\ pc = "act"
    /\ ActBranch(action) = "extract"
    /\ \E r \in {[kind |-> "extracted", companies |-> n] : n \in 0..MaxCompanies} \cup
                {[kind |-> "extraction_failed", error |-> e] :
                    e \in DecisionErrors \cup {ValidationError}} :
         /\ result' = r
         /\ extractLog' = Append(extractLog,
               [step |-> step + 1, returned |-> r,
                prompt |-> _construct_extraction_prompt(simplified_html)])
    /\ pc' = "update"
    /\ UNCHANGED <<max_steps, step, outcome, history, action, simplified_html,
                   decision_prompt, page, decided, execLog, driverLog, tbVars, mainVars>>

\* ACT, line 171: result = self.action_executor.execute(action).
ActExecute ==
    /\ pc = "act"
    /\ ActBranch(action) = "execute"
    /\ \E fault \in FaultsOf(Dispatch(action).calls) :
         LET r == execute(action, fault)
         IN  /\ execLog' = Append(execLog,
                   [step |-> step + 1, action |-> action, fault |-> fault,
                    calls |-> r.calls,
                    returned |-> IF r.raised THEN [kind |-> "raised", exc |-> r.exc]
                                 ELSE r.result])
             /\ driverLog' = driverLog \o Logged(r.calls, step + 1)
             /\ page' = page + Mutations(r.calls)
             /\ IF r.raised
                THEN /\ pc' = "done"
                     /\ outcome' = [kind |-> "raised", exc |-> r.exc, at |-> "execute"]
                     /\ result' = result
                ELSE /\ pc' = "update"
                     /\ outcome' = outcome
                     /\ result' = r.result
    /\ UNCHANGED <<max_steps, step, history, action, simplified_html, decision_prompt,
                   decided, extractLog, tbVars, mainVars>>

\* LOOP, line 174: append to the history and go to the next iteration.
Update ==
    /\ pc = "update"
    /\ history' = AppendEntry(history, ModelDump(action), result)
    /\ step' = step + 1
    /\ LoopHead(step + 1)
    /\ UNCHANGED <<max_steps, action, result, simplified_html, decision_prompt, page,
                   decided, execLog, extractLog, driverLog, tbVars, mainVars>>

\* ------------------------------------------------------------------ main.py
\* max_steps: int = 20
DefaultMaxSteps == 20

\* The finally clause skipped when the try block raised.
RunsCleanupOnSuccessOnly(how) == how = "returned"

\* try / except / finally, lines 57-74: the finally clause runs however the
\* try block was left.
RunsCleanup(how) == how \in {"returned", "raised"}

\* Lines 41-54: webdriver.Chrome(...); on an exception main returns.
MainSetup ==
    /\ mainPc = "setup"
    /\ \/ acquired' = acquired + 1 /\ mainPc' = "agent"
       \/ acquired' = acquired /\ mainPc' = "done"
    /\ UNCHANGED <<mainTry, released, quitAt, agentVars, tbVars>>

\* Lines 59-64: agent = Agent(driver=..., goal=..., target_url=...).
MainInitAgent ==
    /\ mainPc = "agent"
    /\ pc = "idle"
    /\ max_steps' = DefaultMaxSteps
    /\ history' = <<>>
    /\ pc' = "constructed"
    /\ UNCHANGED <<step, outcome, action, result, simplified_html, decision_prompt, page,
                   decided, execLog, extractLog, driverLog, tbVars, mainVars>>

\* Lines 59-64 raising (the model or provider cannot be built): except, line 69.
MainInitAgentFails ==
    /\ mainPc = "agent"
    /\ pc = "idle"
    /\ mainTry' = "raised"
    /\ mainPc' = "finally"
    /\ UNCHANGED <<acquired, released, quitAt, agentVars, tbVars>>

\* Line 67: agent.run().  run is a coroutine function and the call is not
\* awaited: it creates the coroutine object and runs none of its body.
MainCallRun ==
    /\ mainPc = "agent"
    /\ pc = "constructed"
    /\ pc' = "created"
    /\ mainTry' = "returned"
    /\ mainPc' = "finally"
    /\ UNCHANGED <<max_steps, step, outcome, history, action, result, simplified_html,
                   decision_prompt, page, decided, execLog, extractLog, driverLog,
                   acquired, released, quitAt, tbVars>>

\* Lines 71-74: finally: driver.quit().
MainFinally ==
    /\ mainPc = "finally"
    /\ IF RunsCleanup(mainTry)
       THEN released' = released + 1 /\ quitAt' = Len(driverLog)
       ELSE released' = released /\ quitAt' = quitAt
    /\ mainPc' = "done"
    /\ UNCHANGED <<mainTry, acquired, agentVars, tbVars>>

Next ==
    \/ MainSetup
    \/ MainInitAgent
    \/ MainInitAgentFails
    \/ MainCallRun
    \/ MainFinally
    \/ Start
    \/ Observe
    \/ ObserveFails
    \/ Decide
    \/ DecideFails
    \/ ActFinish
    \/ ActExtract
    \/ ActExecute
    \/ Update

Spec == Init /\ [][Next]_vars

\* --------------------------------------------- Toolbox validation on its own
\* Raw payloads: any tag (known, unknown, not a string, absent) with up to
\* MaxKeys other keys, each a string, the empty string or not a string.
TagValues == {Str(V.tag) : V \in Action} \cup {Str("scroll"), NonStr("7")}
KeyValues == {Str("x"), Str(""), NonStr("7")}
KeySets == {S \in SUBSET Fields : Cardinality(S) <= MaxKeys}
Untagged == UNION {[S -> KeyValues] : S \in KeySets}
Tagged ==
    {[k \in DOMAIN f \cup {"action_name"} |-> IF k = "action_name" THEN t ELSE f[k]] :
        <<f, t>> \in Untagged \X TagValues}
RawPayloads == Untagged \cup Tagged

TbInit ==
    /\ tbPayload \in RawPayloads
    /\ tbResult = None
    /\ tbDump = None
    /\ tbBack = None
    /\ MainIdle
    /\ max_steps = 0
    /\ step = 0
    /\ pc = "idle"
    /\ outcome = Running
    /\ history = <<>>
    /\ action = None
    /\ result = None
    /\ simplified_html = None
    /\ decision_prompt = None
    /\ page = 0
    /\ decided = <<>>
    /\ execLog = <<>>
    /\ extractLog = <<>>
    /\ driverLog = <<>>

\* Validation yields an instance of a member that accepts the payload.
ValidateAccepts ==
    /\ tbResult = None
    /\ \E a \in Validate(tbPayload) : tbResult' = [kind |-> "instance", instance |-> a]
    /\ UNCHANGED <<tbPayload, tbDump, tbBack, agentVars, mainVars>>

\* No member accepts the payload: ValidationError.
ValidateRejects ==
    /\ tbResult = None
    /\ Validate(tbPayload) = {}
    /\ tbResult' = [kind |-> "error", error |-> ValidationError]
    /\ UNCHANGED <<tbPayload, tbDump, tbBack, agentVars, mainVars>>

\* model_dump() of the validated instance, as agent.py line 174 stores it.
DumpInstance ==
    /\ tbResult.kind = "instance"
    /\ tbDump = None
    /\ tbDump' = ModelDump(tbResult.instance)
    /\ UNCHANGED <<tbPayload, tbResult, tbBack, agentVars, mainVars>>

\* The dump validated against the Action union again.
RevalidateDump ==
    /\ tbDump # None
    /\ tbBack = None
    /\ tbBack' \in
          IF Validate(tbDump) = {}
          THEN {[kind |-> "error", error |-> ValidationError]}
          ELSE {[kind |-> "instance", instance |-> a] : a \in Validate(tbDump)}
    /\ UNCHANGED <<tbPayload, tbResult, tbDump, agentVars, mainVars>>

TbNext == ValidateAccepts \/ ValidateRejects \/ DumpInstance \/ RevalidateDump

SpecToolbox == TbInit /\ [][TbNext]_vars

\* ------------------------------------------------------------------ helpers
IsError(d) == "llm_error" \in DOMAIN d
IsAction(d, tag) == "action_name" \in DOMAIN d /\ d["action_name"] = tag
IsInstanceOf(a, V) ==
    /\ DOMAIN a = {"action_name"} \cup V.required
    /\ a["action_name"] = V.tag
Done == pc = "done"
InitialNavigationOk == Len(driverLog) > 0 /\ driverLog[1].ok
NoDriverFault ==
    /\ \A i \in DOMAIN driverLog : driverLog[i].ok
    /\ ~(outcome.kind = "raised" /\ outcome.at \in {"start", "observe"})
NoFinishDecided == \A i \in DOMAIN decided : ~IsAction(decided[i], "finish")
IsPrefix(s, t) == Len(s) <= Len(t) /\ \A i \in DOMAIN s : s[i] = t[i]
Count(log, P(_)) == Cardinality({i \in DOMAIN log : P(log[i])})
LLMErrorEntry(e) ==
    [action |-> [str |-> "LLM_Error"], result |-> [kind |-> "llm_error", text |-> e]]

\* ------------------------------------------------------------------- claims

\* C1: with a step budget K and a model that never returns Finish (and a driver
\* that does not fail), the run completes exactly K steps and ends exhausted,
\* never aborting earlier.
C1_NoFinishRunsToExhaustion ==
    (Done /\ InitialNavigationOk /\ NoDriverFault /\ NoFinishDecided)
        => (outcome.kind = "exhausted" /\ step = max_steps /\ Len(decided) = max_steps)

\* C2: a decided Finish ends the loop in the same step: no Executor call, no
\* extraction request, no driver call, no history entry for that step, and
\* nothing happens after the run has ended.
C2_FinishEndsLoop ==
    [][/\ (pc = "act" /\ IsAction(action, "finish")) =>
            /\ pc' = "done"
            /\ outcome' = [kind |-> "finished", reason |-> action["reason"]]
            /\ UNCHANGED <<history, execLog, extractLog, driverLog, step, page>>
       /\ Done => UNCHANGED vars]_vars

C2_Witness ==
    /\ Done
    /\ outcome.kind = "finished"
    /\ step >= 1
    /\ step + 1 < max_steps
    /\ Len(history) = step

\* The result the logs hold for step j (1-based), whichever call produced it.
LoggedResult(j) ==
    LET ex == {i \in DOMAIN execLog : execLog[i].step = j}
        xt == {i \in DOMAIN extractLog : extractLog[i].step = j}
    IN  IF ex # {} THEN execLog[CHOOSE i \in ex : TRUE].returned
        ELSE IF xt # {} THEN extractLog[CHOOSE i \in xt : TRUE].returned
        ELSE None

HistoryMatchesSteps ==
    /\ Len(history) = step
    /\ \A j \in DOMAIN history :
         IF IsError(decided[j])
         THEN history[j] = LLMErrorEntry(decided[j]["llm_error"])
         ELSE /\ history[j].action = ModelDump(decided[j])
              /\ history[j].result = LoggedResult(j)

\* C3: history is append-only and order-preserving: after N completed steps it
\* has exactly N entries, entry j is the {action, result} pair of the j-th
\* completed step, and a step changes it only by appending one entry.
C3_HistoryAppendOnly ==
    [][/\ HistoryMatchesSteps'
       /\ \/ history' = history
          \/ /\ Len(history') = Len(history) + 1
             /\ SubSeq(history', 1, Len(history)) = history]_vars

C3_Witness ==
    /\ Len(history) = 3
    /\ history[1].action # history[2].action
    /\ history[2].result # history[3].result
    /\ \E j \in DOMAIN history : IsError(decided[j])

\* C4: a failed decision request appends exactly one LLM_Error entry carrying
\* the error text, calls neither the Executor nor the extraction client nor
\* the driver, consumes the step and goes on to the next one (or to the
\* exhausted end); failing on step 1 and deciding Finish on step 2 ends the
\* run after step 2 with the LLM_Error entry as the only history entry.
C4_DecisionErrorRecovers ==
    [][/\ (Len(decided') = Len(decided) + 1 /\ IsError(decided'[Len(decided')])) =>
            /\ history' = Append(history, LLMErrorEntry(decided'[Len(decided')]["llm_error"]))
            /\ UNCHANGED <<execLog, extractLog, driverLog, page>>
            /\ step' = step + 1
            /\ IF step' < max_steps
               THEN pc' = "observe" /\ outcome' = Running
               ELSE pc' = "done" /\ outcome'.kind = "exhausted"
       /\ (Done /\ Len(decided) = 2 /\ IsError(decided[1]) /\ IsAction(decided[2], "finish"))' =>
            (/\ outcome.kind = "finished"
             /\ step = 1
             /\ history = <<LLMErrorEntry(decided[1]["llm_error"])>>)']_vars

C4_Witness ==
    /\ Done
    /\ outcome.kind = "finished"
    /\ Len(decided) = 2
    /\ IsError(decided[1])
    /\ decided[1]["llm_error"] = ValidationError
    /\ Len(history) = 1

\* C5: ActionExecutor.execute never raises past its boundary: every call with
\* a validated Navigate, Click, FillField, SelectDropdown or PerformPostback
\* action returns a result string, whatever the driver does.
C5_ExecuteNeverRaises ==
    \A i \in DOMAIN execLog : execLog[i].returned.kind # "raised"

\* C6: once the initial navigation has succeeded, the run ends only as
\* Terminated (Finish) or Exhausted, never by an exception leaving the loop.
C6_NothingEscapesLoop ==
    (Done /\ InitialNavigationOk) => outcome.kind \in {"finished", "exhausted"}

\* C7: with budget 3 and the model answering Navigate("https://x/list"),
\* ExtractData, Finish("done") in that order, the run performs one navigation
\* and one extraction request, ends in step 3 with reason "done", and history
\* has 3 entries.
Scenario ==
    <<[action_name |-> "navigate", url |-> "https://x/list"],
      [action_name |-> "extract_data", description |-> "listing"],
      [action_name |-> "finish", reason |-> "done"]>>

IsStepNavigation(d) == d.step >= 1 /\ d.call = "get"
IsAny(d) == TRUE

C7_ScenarioRun ==
    (/\ Done
     /\ max_steps = 3
     /\ InitialNavigationOk
     /\ NoDriverFault
     /\ Len(decided) >= 1
     /\ IsPrefix(decided, Scenario))
        => /\ outcome = [kind |-> "finished", reason |-> "done"]
           /\ Len(decided) = 3
           /\ Count(driverLog, IsStepNavigation) = 1
           /\ Count(extractLog, IsAny) = 1
           /\ Len(history) = 3

\* C8: the Executor is only called with an action that passed validation in
\* the same step and is one of the five browser actions, and every driver
\* call after the initial navigation is made inside such a call.
BrowserActions == {Navigate, Click, FillField, SelectDropdown, PerformPostback}

C8_OnlyValidatedActionsReachDriver ==
    /\ \A i \in DOMAIN execLog :
         /\ \E V \in BrowserActions : IsInstanceOf(execLog[i].action, V)
         /\ execLog[i].step <= Len(decided)
         /\ decided[execLog[i].step] = execLog[i].action
    /\ \A i \in DOMAIN driverLog :
         driverLog[i].step >= 1 =>
            \E j \in DOMAIN execLog : execLog[j].step = driverLog[i].step

C8_Witness ==
    /\ Len(execLog) = 2
    /\ \E i \in DOMAIN driverLog :
         driverLog[i].step = 2 /\ driverLog[i].ok /\ driverLog[i].call \in MutatingCalls

\* C9: a step whose decided action is ExtractData never calls the Executor and
\* makes no driver call: the page the next step observes is the page this step
\* observed, whether the extraction succeeds or fails.
C9_ExtractDataLeavesPage ==
    /\ \A j \in DOMAIN decided :
         IsAction(decided[j], "extract_data") =>
            /\ \A i \in DOMAIN execLog : execLog[i].step # j
            /\ \A i \in DOMAIN driverLog : driverLog[i].step # j
    /\ (pc \in {"act", "update"} /\ IsAction(action, "extract_data")) =>
            page = simplified_html.version
    /\ (pc = "decide" /\ Len(decided) >= 1 /\ IsAction(decided[Len(decided)], "extract_data")) =>
            simplified_html.version = extractLog[Len(extractLog)].prompt.html.version

C9_Witness ==
    /\ pc = "decide"
    /\ Len(decided) = 2
    /\ IsAction(decided[2], "extract_data")
    /\ history[2].result.kind = "extraction_failed"
    /\ page >= 2

\* C10: validation succeeds, yielding the variant named by the payload's tag,
\* exactly when the payload's action_name is one of the seven known tags and
\* every required field of that variant is present and a string.
WellFormed(p) ==
    /\ "action_name" \in DOMAIN p
    /\ \E V \in Action :
         /\ p["action_name"] = Str(V.tag)
         /\ \A f \in V.required : f \in DOMAIN p /\ p[f].t = "str"

C10_ValidationIffWellFormed ==
    tbResult # None =>
        /\ tbResult.kind = "instance" <=> WellFormed(tbPayload)
        /\ tbResult.kind = "instance" =>
              tbPayload["action_name"] = Str(tbResult.instance["action_name"])

\* C11: every Action that validation accepts has all required fields of its
\* variant non-empty.
C11_AcceptedFieldsNonEmpty ==
    tbResult.kind = "instance" =>
        \A f \in DOMAIN tbResult.instance : tbResult.instance[f] # ""

\* C12: serializing any validated Action with model_dump and validating the
\* dump against the Action union yields the same variant with the same field
\* values.
C12_DumpRoundTrip ==
    tbBack # None => tbBack = [kind |-> "instance", instance |-> tbResult.instance]

C12_Witness ==
    /\ tbBack.kind = "instance"
    /\ tbBack.instance["action_name"] = "fill_field"
    /\ tbBack.instance["text"] = ""
    /\ "action_name" \notin DOMAIN tbPayload

\* C13: under main() the driver is created at most once and, whenever it was
\* created, driver.quit() is called exactly once on every way out of main; it
\* is not called while the run still uses the driver, and the driver is not
\* used after it.
RunUsesDriver == pc \in {"start", "observe", "decide", "act", "update"}

ElementActions == {"click", "fill_field", "select_dropdown", "perform_postback"}

C14_NotFoundIsReported ==
    \A i \in DOMAIN execLog :
        LET e == execLog[i]
        IN  (/\ e.action["action_name"] \in ElementActions
             /\ e.fault.exc \in {"NoSuchElementException", "TimeoutException"})
            => /\ e.returned.kind = "element_not_found"
               /\ e.returned.details = e.fault.exc
               /\ e.returned.selector = SelectorOf(e.action)
               /\ Len(e.calls) >= 1
               /\ e.calls[Len(e.calls)] = [call |-> e.fault.call, ok |-> FALSE]
               /\ \A k \in 1..(Len(e.calls) - 1) : e.calls[k].ok
               /\ Len(e.calls) <= Len(Dispatch(e.action).calls)
               /\ \A k \in DOMAIN e.calls : e.calls[k].call = Dispatch(e.action).calls[k]

C14_Witness ==
    /\ Len(execLog) = 2
    /\ execLog[1].action["action_name"] = "fill_field"
    /\ execLog[1].fault = [call |-> "find_element", exc |-> "TimeoutException"]
    /\ Len(execLog[1].calls) = 1
    /\ execLog[2].action["action_name"] = "perform_postback"
    /\ execLog[2].returned.kind = "element_not_found"
    /\ execLog[2].returned.selector = "N/A"
    /\ pc = "update"

\* C15: a run that gets past the initial navigation (on a driver that does not
\* fail) ends with exactly one of two outcomes: the finish reason if and only
\* if a Finish was decided, the exhausted notice if and only if all max_steps
\* steps ran without one; never both and never neither.
C15_ExactlyOneEnding ==
    (Done /\ InitialNavigationOk /\ NoDriverFault) =>
        /\ outcome.kind \in {"finished", "exhausted"}
        /\ outcome.kind = "finished" <=> ~NoFinishDecided
        /\ outcome.kind = "exhausted" <=> (NoFinishDecided /\ step = max_steps)

\* C16: when main() has set up the WebDriver and built the Agent, the run has
\* performed its initial navigation and reached its Finish or exhausted end by
\* the time main calls driver.quit().
C16_RunCompletesBeforeQuit ==
    (mainTry = "returned" /\ released >= 1) =>
        /\ Len(driverLog) >= 1
        /\ driverLog[1].call = "get"
        /\ pc = "done"
        /\ outcome.kind \in {"finished", "exhausted"}

\* C17: an ExtractData step issues exactly one extraction request, built from
\* the reduced markup of that step's decision request; its result is a failure
\* carrying the error or a summary carrying the number of companies; exactly
\* one history entry {ExtractData action, result} is appended and the loop
\* goes on to the next step.
ExtractionsOf(j) == {i \in DOMAIN extractLog : extractLog[i].step = j}

ExtractStepsRecorded ==
    /\ \A j \in DOMAIN decided :
         IsAction(decided[j], "extract_data") =>
            /\ Cardinality(ExtractionsOf(j)) <= 1
            /\ (j <= Len(history) \/ pc = "update") => Cardinality(ExtractionsOf(j)) = 1
            /\ \A i \in ExtractionsOf(j) :
                 /\ \/ /\ extractLog[i].returned.kind = "extracted"
                       /\ extractLog[i].returned.companies \in Nat
                    \/ /\ extractLog[i].returned.kind = "extraction_failed"
                       /\ extractLog[i].returned.error \in DecisionErrors \cup {ValidationError}
                 /\ j <= Len(history) =>
                       history[j] = [action |-> ModelDump(decided[j]),
                                     result |-> extractLog[i].returned]
    /\ (pc = "update" /\ IsAction(action, "extract_data")) =>
         /\ extractLog[Len(extractLog)].step = Len(decided)
         /\ extractLog[Len(extractLog)].prompt.html = decision_prompt.html
         /\ extractLog[Len(extractLog)].returned = result
         /\ page = decision_prompt.html.version

C17_ExtractStep ==
    [][/\ ExtractStepsRecorded'
       /\ (pc = "update" /\ IsAction(action, "extract_data")) =>
            /\ history' = Append(history, [action |-> ModelDump(action), result |-> result])
            /\ extractLog' = extractLog
            /\ IF step + 1 < max_steps
               THEN pc' = "observe" /\ outcome' = Running
               ELSE pc' = "done" /\ outcome'.kind = "exhausted"]_vars

C17_Witness ==
    /\ pc = "observe"
    /\ Len(history) = 2
    /\ Len(extractLog) = 2
    /\ history[1].result.kind = "extraction_failed"
    /\ history[2].result = [kind |-> "extracted", companies |-> 1]

\* C18: steps are strictly sequential: a step's observation starts only when
\* every earlier step's action has returned and its history entry has been
\* appended, and the decision request built from that observation carries the
\* whole history as it stands then, in order, the previous step's entry last.
C18_StepsSequential ==
    [][/\ (pc = "observe" /\ pc' = "decide") =>
            /\ Len(history) = step
            /\ Len(decided) = step
            /\ \A i \in DOMAIN execLog : execLog[i].step <= step
            /\ \A i \in DOMAIN extractLog : extractLog[i].step <= step
            /\ \A j \in 1..step :
                 \/ IsError(decided[j])
                 \/ \E i \in DOMAIN execLog : execLog[i].step = j
                 \/ \E i \in DOMAIN extractLog : extractLog[i].step = j
            /\ decision_prompt'.history = history
            /\ decision_prompt'.html = simplified_html'
            /\ simplified_html'.version = page
       /\ (pc \in {"decide", "act", "update"})' =>
            (decision_prompt.history = history /\ Len(history) = Len(decided) - (IF pc = "decide" THEN 0 ELSE 1))']_vars

C18_Witness ==
    /\ pc = "decide"
    /\ step = 2
    /\ Len(decision_prompt.history) = 2
    /\ decision_prompt.history[1].result.kind = "element_not_found"
    /\ decision_prompt.history[2].result.kind = "extracted"

\* C19: Agent.run terminates: every step of the run lowers a measure bounded by
\* the budget, and the run is never stuck before its end; it issues at most
\* max_steps decision requests, Executor calls and extraction requests, and
\* len(history) never exceeds the number of steps started nor max_steps.
Measure ==
    CASE pc = "done" -> 0
      [] pc = "start" -> 4 * max_steps + 5
      [] pc = "observe" -> 4 * (max_steps - step) + 4
      [] pc = "decide" -> 4 * (max_steps - step) + 3
      [] pc = "act" -> 4 * (max_steps - step) + 2
      [] pc = "update" -> 4 * (max_steps - step) + 1
      [] OTHER -> 0

StepsStarted == step + (IF pc \in {"decide", "act", "update"} THEN 1 ELSE 0)

ResourceBounds ==
    /\ Len(decided) <= max_steps
    /\ Len(execLog) <= max_steps
    /\ Len(extractLog) <= max_steps
    /\ Len(execLog) + Len(extractLog) <= Len(decided)
    /\ Len(history) <= Len(decided)
    /\ Len(history) <= StepsStarted
    /\ Len(history) <= max_steps
    /\ step <= max_steps
    /\ Measure >= 0

C19_RunTerminatesWithinBudget ==
    [][mainPc = "none" =>
        /\ Measure' < Measure
        /\ ResourceBounds'
        /\ (pc' # "done") => (ENABLED Next)']_vars

C19_Witness ==
    /\ mainPc = "none"
    /\ pc = "done"
    /\ outcome.kind = "exhausted"
    /\ max_steps = 3
    /\ Len(decided) = 3
    /\ Len(execLog) = 2
    /\ Len(extractLog) = 1

====
